---- MODULE Spec2Model ----
(***************************************************************************)
(* ECSDeploymentStreamer (internal/pkg/stream/ecs.go): a driver goroutine  *)
(* calls Subscribe, Fetch, Notify and Close one after the other; reader    *)
(* goroutines receive from the unbuffered channels Subscribe returned.     *)
(* Strings the code inspects character by character (task definition      *)
(* ARNs, event messages) are tuples of one-character strings.              *)
(***************************************************************************)
EXTENDS Integers, Sequences, FiniteSets, TLC

VARIABLES
    subscribers,     \* s.subscribers: the channels, in registration order
    done,            \* s.done: "open" or "closed"
    pastEventIDs,    \* s.pastEventIDs: the keys of the map
    eventsToFlush,   \* s.eventsToFlush: buffered ECSService values
    chanClosed,      \* the subscriber channels that have been closed
    received,        \* per channel, the values its reader has received
    observedClosed,  \* the channels whose reader has read "closed"
    pc,              \* the driver: "idle", or "notify" while blocked in Notify
    ni, nj,          \* Notify's position: event index, subscriber index
    panicked,        \* "none", or the run-time panic that ended the driver
    lastOut,         \* what client.Service returned to Fetch, until the next call
    nFetch,          \* Fetch calls made so far
    closeCalled,     \* whether Close has been called
    insertCount,     \* history: per event id, executions of line 115
    startLen,        \* history: per channel, Len(received) when Notify began
    flushedLog,      \* history: the non-empty buffers flushed by Notify, in order
    flushedAtSub,    \* history: per channel, the values flushed before its Subscribe
    unread,          \* the channels whose reader never receives
    released,        \* the goroutines that have returned from <-s.Done()
    notifiedEmpty    \* history: the driver's last call was a Notify that
                     \* found the buffer empty

vars == <<subscribers, done, pastEventIDs, eventsToFlush, chanClosed, received,
          observedClosed, pc, ni, nj, panicked, lastOut, nFetch, closeCalled,
          insertCount, startLen, flushedLog, flushedAtSub, unread, released,
          notifiedEmpty>>

-----------------------------------------------------------------------------
(* Bounds *)
MaxSubs == 2
MaxFetch == 2
MaxDeployments == 2
MaxEvents == 2

Channels == 1..MaxSubs

-----------------------------------------------------------------------------
(* Constants of the program *)
ecsPrimaryDeploymentStatus == "PRIMARY"

ecsEventFailureKeywords ==
    << <<"f","a","i","l">>,
       <<"u","n","h","e","a","l","t","h","y">>,
       <<"e","r","r","o","r">>,
       <<"t","h","r","o","t","t","l","e">>,
       <<"u","n","a","b","l","e">>,
       <<"m","i","s","s","i","n","g">> >>

\* The creation time the streamer is constructed with; times are integers.
deploymentCreationTime == 1

-----------------------------------------------------------------------------
(* strings.Split and strings.Contains *)
RECURSIVE Split(_, _)
Split(s, sep) ==
    IF \E i \in 1..Len(s) : s[i] = sep
    THEN LET i == CHOOSE k \in 1..Len(s) :
                      s[k] = sep /\ \A j \in 1..(k-1) : s[j] # sep
         IN  <<SubSeq(s, 1, i-1)>> \o Split(SubSeq(s, i+1, Len(s)), sep)
    ELSE <<s>>

Contains(s, substr) ==
    \E i \in 0..(Len(s) - Len(substr)) : SubSeq(s, i+1, i+Len(substr)) = substr

\* parseRevisionFromTaskDefARN indexes [1] of each split: it panics (index out
\* of range) when a split has fewer than two parts.
parsePanics(arn) ==
    \/ Len(Split(arn, "/")) < 2
    \/ Len(Split(Split(arn, "/")[2], ":")) < 2

\* Mutant of parseRevisionFromTaskDefARN: the whole ARN is split on ":".
parseRevisionSplitsWholeArn(arn) ==
    Split(arn, ":")[2]

parseRevisionFromTaskDefARN(arn) ==
    LET familyName == Split(arn, "/")[2]
    IN  Split(familyName, ":")[2]

\* Mutant of isFailureServiceEvent: the message is lowered before the match.
isFailureServiceEventAnyCase(msg) ==
    LET lower(ch) == CASE ch = "F" -> "f" [] ch = "A" -> "a" [] ch = "I" -> "i"
                       [] ch = "L" -> "l" [] ch = "E" -> "e" [] ch = "D" -> "d"
                       [] OTHER -> ch
        lowered == [i \in 1..Len(msg) |-> lower(msg[i])]
    IN  \E k \in 1..Len(ecsEventFailureKeywords) :
            Contains(lowered, ecsEventFailureKeywords[k])

isFailureServiceEvent(msg) ==
    \E k \in 1..Len(ecsEventFailureKeywords) : Contains(msg, ecsEventFailureKeywords[k])

-----------------------------------------------------------------------------
(* What client.Service can return *)
ArnRev3 == <<"a",":","t","/","f",":","3">>
ArnRev4 == <<"a",":","t","/","f",":","4">>

RawDeployment(status, arn, desired, running, rollout) ==
    [Status |-> status, TaskDefinition |-> arn, DesiredCount |-> desired,
     RunningCount |-> running, FailedTasks |-> 0,
     PendingCount |-> desired - running, RolloutState |-> rollout]

RawDeployments ==
    { RawDeployment("PRIMARY", ArnRev4, 1, 1, "COMPLETED"),
      RawDeployment("PRIMARY", ArnRev4, 2, 1, "IN_PROGRESS"),
      RawDeployment("ACTIVE",  ArnRev3, 1, 1, "COMPLETED") }

MsgFailed == <<"f","a","i","l","e","d">>
MsgUpper == <<"F","A","I","L","E","D">>
MsgUnable == <<"u","n","a","b","l","e">>
MsgError == <<"a","n"," ","e","r","r","o","r">>

\* e1: a failure in window; e2: no keyword in lower case, created at the
\* creation time; e3: a failure created before the deployment.
RawEvents ==
    { [Id |-> "e1", Message |-> MsgFailed, CreatedAt |-> deploymentCreationTime + 1],
      [Id |-> "e2", Message |-> MsgUpper,  CreatedAt |-> deploymentCreationTime],
      [Id |-> "e3", Message |-> MsgUnable, CreatedAt |-> deploymentCreationTime - 1] }

\* e4: a second failure in window, newer than e1.
NewestEvent ==
    [Id |-> "e4", Message |-> MsgError, CreatedAt |-> deploymentCreationTime + 2]

AllEvents == RawEvents \cup {NewestEvent}

EventIds == { e.Id : e \in AllEvents }

SeqsUpTo(S, n) == UNION { [1..k -> S] : k \in 0..n }

DeploymentLists == SeqsUpTo(RawDeployments, MaxDeployments)
EventLists == SeqsUpTo(RawEvents, MaxEvents)

\* The two loops of Fetch share no state, so the responses vary one list at a
\* time: every deployment list without events, and every event list beside a
\* single PRIMARY deployment, in progress or completed.
Responses ==
    { r \in [Deployments : DeploymentLists, Events : EventLists] :
        \/ r.Events = <<>>
        \/ /\ Len(r.Deployments) = 1
           /\ r.Deployments[1].Status = ecsPrimaryDeploymentStatus }

\* The responses of the full driver: one PRIMARY deployment, at most one event.
DriverResponses ==
    { r \in Responses :
        /\ Len(r.Deployments) = 1
        /\ r.Deployments[1].Status = ecsPrimaryDeploymentStatus
        /\ r.Events \in {<<>>} \cup { <<e>> : e \in RawEvents } }

\* lastOut: no call of client.Service to speak of, its error, or its output.
NoOut == [result |-> "none", Deployments |-> <<>>, Events |-> <<>>]
DescribeError == [result |-> "error", Deployments |-> <<>>, Events |-> <<>>]
Returned(out) == [result |-> "ok", Deployments |-> out.Deployments, Events |-> out.Events]

-----------------------------------------------------------------------------
(* Fetch, lines 80-122 *)

\* Mutant of Before: an equal time counts as before.
BeforeOrEqual(t, u) == t <= u

\* time.Time.Before
Before(t, u) == t < u

\* Lines 89-97: the ECSDeployment built from one deployment of the response.
NewECSDeployment(d) ==
    [Status |-> d.Status,
     TaskDefRevision |-> parseRevisionFromTaskDefARN(d.TaskDefinition),
     DesiredCount |-> d.DesiredCount,
     RunningCount |-> d.RunningCount,
     FailedCount |-> d.FailedTasks,
     PendingCount |-> d.PendingCount,
     RolloutState |-> d.RolloutState]

\* Mutant of deploymentIsDone: the status is not compared.
deploymentIsDoneAnyStatus(d) ==
    d.DesiredCount = d.RunningCount

\* Line 98.
deploymentIsDone(d) ==
    d.Status = ecsPrimaryDeploymentStatus /\ d.DesiredCount = d.RunningCount

\* Lines 86-102, from deployment i on: the deployments gathered, the state of
\* s.done, and the panic that cut the loop short (close of a closed channel).
RECURSIVE deploymentLoop(_, _, _, _)
deploymentLoop(ds, i, acc, d) ==
    IF i > Len(ds)
    THEN [deployments |-> acc, done |-> d, panic |-> "none"]
    ELSE IF parsePanics(ds[i].TaskDefinition)
    THEN [deployments |-> acc, done |-> d, panic |-> "index out of range"]
    ELSE IF deploymentIsDone(ds[i])
    THEN IF d = "closed"
         THEN [deployments |-> Append(acc, NewECSDeployment(ds[i])), done |-> d,
               panic |-> "close of closed channel"]
         ELSE deploymentLoop(ds, i+1, Append(acc, NewECSDeployment(ds[i])), "closed")
    ELSE deploymentLoop(ds, i+1, Append(acc, NewECSDeployment(ds[i])), d)

\* Mutant of eventLoop: a known id is skipped (continue), the loop goes on.
RECURSIVE eventLoopSkips(_, _, _, _, _)
eventLoopSkips(evs, i, ids, msgs, inserted) ==
    IF i > Len(evs)
    THEN [ids |-> ids, msgs |-> msgs, inserted |-> inserted]
    ELSE IF Before(evs[i].CreatedAt, deploymentCreationTime)
    THEN [ids |-> ids, msgs |-> msgs, inserted |-> inserted]
    ELSE IF evs[i].Id \in ids
    THEN eventLoopSkips(evs, i+1, ids, msgs, inserted)
    ELSE eventLoopSkips(evs, i+1, ids \cup {evs[i].Id},
                        IF isFailureServiceEvent(evs[i].Message)
                        THEN Append(msgs, evs[i].Message) ELSE msgs,
                        Append(inserted, evs[i].Id))

\* Mutant of eventLoop: the ids known are not consulted.
RECURSIVE eventLoopNoLedgerCheck(_, _, _, _, _)
eventLoopNoLedgerCheck(evs, i, ids, msgs, inserted) ==
    IF i > Len(evs)
    THEN [ids |-> ids, msgs |-> msgs, inserted |-> inserted]
    ELSE IF Before(evs[i].CreatedAt, deploymentCreationTime)
    THEN [ids |-> ids, msgs |-> msgs, inserted |-> inserted]
    ELSE eventLoopNoLedgerCheck(evs, i+1, ids \cup {evs[i].Id},
                                IF isFailureServiceEvent(evs[i].Message)
                                THEN Append(msgs, evs[i].Message) ELSE msgs,
                                Append(inserted, evs[i].Id))

\* Lines 103-116, from event i on: the ids known, the failure messages, and
\* (history) the ids line 115 was executed for, in order.
RECURSIVE eventLoop(_, _, _, _, _)
eventLoop(evs, i, ids, msgs, inserted) ==
    IF i > Len(evs)
    THEN [ids |-> ids, msgs |-> msgs, inserted |-> inserted]
    ELSE IF Before(evs[i].CreatedAt, deploymentCreationTime)
    THEN [ids |-> ids, msgs |-> msgs, inserted |-> inserted]
    ELSE IF evs[i].Id \in ids
    THEN [ids |-> ids, msgs |-> msgs, inserted |-> inserted]
    ELSE eventLoop(evs, i+1, ids \cup {evs[i].Id},
                   IF isFailureServiceEvent(evs[i].Message)
                   THEN Append(msgs, evs[i].Message) ELSE msgs,
                   Append(inserted, evs[i].Id))

\* How often x occurs in the sequence q.
Occurrences(q, x) == Cardinality({ i \in 1..Len(q) : q[i] = x })

\* Mutant of FetchError: an empty ECSService is buffered before the return.
FetchErrorBuffers ==
    /\ pc = "idle" /\ panicked = "none" /\ nFetch < MaxFetch
    /\ notifiedEmpty' = FALSE
    /\ nFetch' = nFetch + 1
    /\ lastOut' = DescribeError
    /\ eventsToFlush' =
           Append(eventsToFlush, [Deployments |-> <<>>, LatestFailureEvents |-> <<>>])
    /\ UNCHANGED <<subscribers, done, pastEventIDs, chanClosed,
                   received, observedClosed, pc, ni, nj, panicked, closeCalled,
                   insertCount, startLen, flushedLog, flushedAtSub,
                   unread, released>>

\* Lines 81-84: the describe call fails; Fetch returns the wrapped error.
FetchError ==
    /\ pc = "idle" /\ panicked = "none" /\ nFetch < MaxFetch
    /\ notifiedEmpty' = FALSE
    /\ nFetch' = nFetch + 1
    /\ lastOut' = DescribeError
    /\ UNCHANGED <<subscribers, done, pastEventIDs, eventsToFlush, chanClosed,
                   received, observedClosed, pc, ni, nj, panicked, closeCalled,
                   insertCount, startLen, flushedLog, flushedAtSub,
                   unread, released>>

\* Lines 85-121: the describe call returned out.
Fetch(out) ==
    /\ pc = "idle" /\ panicked = "none" /\ nFetch < MaxFetch
    /\ notifiedEmpty' = FALSE
    /\ nFetch' = nFetch + 1
    /\ lastOut' = Returned(out)
    /\ LET dl == deploymentLoop(out.Deployments, 1, <<>>, done)
           el == eventLoop(out.Events, 1, pastEventIDs, <<>>, <<>>)
       IN  /\ done' = dl.done
           /\ panicked' = dl.panic
           /\ IF dl.panic # "none"
              THEN UNCHANGED <<pastEventIDs, eventsToFlush, insertCount>>
              ELSE /\ pastEventIDs' = el.ids
                   /\ eventsToFlush' =
                          Append(eventsToFlush,
                                 [Deployments |-> dl.deployments,
                                  LatestFailureEvents |-> el.msgs])
                   /\ insertCount' =
                          [id \in EventIds |->
                              insertCount[id] + Occurrences(el.inserted, id)]
    /\ UNCHANGED <<subscribers, chanClosed, received, observedClosed, pc, ni, nj,
                   closeCalled, startLen, flushedLog, flushedAtSub,
                   unread, released>>

-----------------------------------------------------------------------------
(* Subscribe, lines 70-74 *)

RECURSIVE Flatten(_)
Flatten(qs) == IF qs = <<>> THEN <<>> ELSE Head(qs) \o Flatten(Tail(qs))

Subscribe ==
    /\ pc = "idle" /\ panicked = "none" /\ Len(subscribers) < MaxSubs
    /\ notifiedEmpty' = FALSE
    /\ LET c == Len(subscribers) + 1
       IN  /\ subscribers' = Append(subscribers, c)
           /\ flushedAtSub' = [flushedAtSub EXCEPT ![c] = Len(Flatten(flushedLog))]
    /\ lastOut' = NoOut
    /\ UNCHANGED <<done, pastEventIDs, eventsToFlush, chanClosed, received,
                   observedClosed, pc, ni, nj, panicked, nFetch, closeCalled,
                   insertCount, startLen, flushedLog,
                   unread, released>>

-----------------------------------------------------------------------------
(* Notify, lines 125-132 *)

ZeroLen == [c \in Channels |-> 0]

\* Mutant of NotifyReturn: the buffer is not reset.
NotifyReturnKeepsBuffer ==
    /\ eventsToFlush' = eventsToFlush
    /\ flushedLog' = IF eventsToFlush = <<>> THEN flushedLog
                     ELSE Append(flushedLog, eventsToFlush)
    /\ pc' = "idle" /\ ni' = 0 /\ nj' = 0
    /\ startLen' = ZeroLen

\* Line 131 and the return.
NotifyReturn ==
    /\ eventsToFlush' = <<>>
    /\ flushedLog' = IF eventsToFlush = <<>> THEN flushedLog
                     ELSE Append(flushedLog, eventsToFlush)
    /\ pc' = "idle" /\ ni' = 0 /\ nj' = 0
    /\ startLen' = ZeroLen

\* Mutant of Notify: the driver blocks in a send whenever there are
\* subscribers, also when the buffer is empty.
NotifyAlwaysSends ==
    /\ pc = "idle" /\ panicked = "none"
    /\ notifiedEmpty' = (eventsToFlush = <<>>)
    /\ lastOut' = NoOut
    /\ IF subscribers = <<>>
       THEN NotifyReturn
       ELSE /\ pc' = "notify" /\ ni' = 1 /\ nj' = 1
            /\ startLen' = [c \in Channels |-> Len(received[c])]
            /\ UNCHANGED <<eventsToFlush, flushedLog>>
    /\ UNCHANGED <<subscribers, done, pastEventIDs, chanClosed, received,
                   observedClosed, panicked, nFetch, closeCalled,
                   insertCount, flushedAtSub, unread, released>>

\* The call: with nothing to send the loops fall through to line 131;
\* otherwise the driver blocks in the first send of line 128.
Notify ==
    /\ pc = "idle" /\ panicked = "none"
    /\ notifiedEmpty' = (eventsToFlush = <<>>)
    /\ lastOut' = NoOut
    /\ IF eventsToFlush = <<>> \/ subscribers = <<>>
       THEN NotifyReturn
       ELSE /\ pc' = "notify" /\ ni' = 1 /\ nj' = 1
            /\ startLen' = [c \in Channels |-> Len(received[c])]
            /\ UNCHANGED <<eventsToFlush, flushedLog>>
    /\ UNCHANGED <<subscribers, done, pastEventIDs, chanClosed, received,
                   observedClosed, panicked, nFetch, closeCalled,
                   insertCount, flushedAtSub,
                   unread, released>>

\* Mutant of NotifySend: every send goes to the first subscriber.
NotifySendToFirst ==
    /\ pc = "notify" /\ panicked = "none"
    /\ subscribers[nj] \notin chanClosed /\ subscribers[nj] \notin unread
    /\ received' = [received EXCEPT ![subscribers[1]] = Append(@, eventsToFlush[ni])]
    /\ IF nj < Len(subscribers)
       THEN /\ nj' = nj + 1
            /\ UNCHANGED <<ni, pc, eventsToFlush, flushedLog, startLen>>
       ELSE IF ni < Len(eventsToFlush)
       THEN /\ ni' = ni + 1 /\ nj' = 1
            /\ UNCHANGED <<pc, eventsToFlush, flushedLog, startLen>>
       ELSE /\ eventsToFlush' = <<>>
            /\ flushedLog' = Append(flushedLog, eventsToFlush)
            /\ pc' = "idle" /\ ni' = 0 /\ nj' = 0
            /\ startLen' = [c \in Channels |-> 0]
    /\ UNCHANGED <<subscribers, done, pastEventIDs, chanClosed, observedClosed,
                   panicked, lastOut, nFetch, closeCalled, insertCount,
                   flushedAtSub,
                   unread, released, notifiedEmpty>>

\* Mutant of NotifySend: the subscribers are served last to first.
NotifySendReverseOrder ==
    /\ pc = "notify" /\ panicked = "none"
    /\ LET sub == subscribers[Len(subscribers) + 1 - nj]
       IN  /\ sub \notin chanClosed /\ sub \notin unread
           /\ received' = [received EXCEPT ![sub] = Append(@, eventsToFlush[ni])]
    /\ IF nj < Len(subscribers)
       THEN /\ nj' = nj + 1
            /\ UNCHANGED <<ni, pc, eventsToFlush, flushedLog, startLen>>
       ELSE IF ni < Len(eventsToFlush)
       THEN /\ ni' = ni + 1 /\ nj' = 1
            /\ UNCHANGED <<pc, eventsToFlush, flushedLog, startLen>>
       ELSE NotifyReturn
    /\ UNCHANGED <<subscribers, done, pastEventIDs, chanClosed, observedClosed,
                   panicked, lastOut, nFetch, closeCalled, insertCount,
                   flushedAtSub, unread, released, notifiedEmpty>>

\* Mutant of NotifySend: the loops are nested the other way round, each
\* subscriber is sent the whole buffer before the next one is served.
NotifySendListenerMajor ==
    /\ pc = "notify" /\ panicked = "none"
    /\ subscribers[nj] \notin chanClosed /\ subscribers[nj] \notin unread
    /\ received' = [received EXCEPT ![subscribers[nj]] = Append(@, eventsToFlush[ni])]
    /\ IF ni < Len(eventsToFlush)
       THEN /\ ni' = ni + 1
            /\ UNCHANGED <<nj, pc, eventsToFlush, flushedLog, startLen>>
       ELSE IF nj < Len(subscribers)
       THEN /\ nj' = nj + 1 /\ ni' = 1
            /\ UNCHANGED <<pc, eventsToFlush, flushedLog, startLen>>
       ELSE NotifyReturn
    /\ UNCHANGED <<subscribers, done, pastEventIDs, chanClosed, observedClosed,
                   panicked, lastOut, nFetch, closeCalled, insertCount,
                   flushedAtSub, unread, released, notifiedEmpty>>

\* Mutant of NotifySend: the channel is buffered, the send does not wait for
\* the reader.
NotifySendNoWait ==
    /\ pc = "notify" /\ panicked = "none"
    /\ subscribers[nj] \notin chanClosed
    /\ received' = IF subscribers[nj] \in unread THEN received
                   ELSE [received EXCEPT ![subscribers[nj]] =
                            Append(@, eventsToFlush[ni])]
    /\ IF nj < Len(subscribers)
       THEN /\ nj' = nj + 1
            /\ UNCHANGED <<ni, pc, eventsToFlush, flushedLog, startLen>>
       ELSE IF ni < Len(eventsToFlush)
       THEN /\ ni' = ni + 1 /\ nj' = 1
            /\ UNCHANGED <<pc, eventsToFlush, flushedLog, startLen>>
       ELSE NotifyReturn
    /\ UNCHANGED <<subscribers, done, pastEventIDs, chanClosed, observedClosed,
                   panicked, lastOut, nFetch, closeCalled, insertCount,
                   flushedAtSub, unread, released, notifiedEmpty>>

\* Line 128 on an open channel: the send blocks until the reader of
\* subscribers[nj] receives eventsToFlush[ni]; then the loops advance to the
\* next send, or to line 131.
NotifySend ==
    /\ pc = "notify" /\ panicked = "none"
    /\ subscribers[nj] \notin chanClosed /\ subscribers[nj] \notin unread
    /\ received' = [received EXCEPT ![subscribers[nj]] = Append(@, eventsToFlush[ni])]
    /\ IF nj < Len(subscribers)
       THEN /\ nj' = nj + 1
            /\ UNCHANGED <<ni, pc, eventsToFlush, flushedLog, startLen>>
       ELSE IF ni < Len(eventsToFlush)
       THEN /\ ni' = ni + 1 /\ nj' = 1
            /\ UNCHANGED <<pc, eventsToFlush, flushedLog, startLen>>
       ELSE NotifyReturn
    /\ UNCHANGED <<subscribers, done, pastEventIDs, chanClosed, observedClosed,
                   panicked, lastOut, nFetch, closeCalled, insertCount,
                   flushedAtSub,
                   unread, released, notifiedEmpty>>

\* Line 128 on a closed channel: send on closed channel panics.
NotifySendClosed ==
    /\ pc = "notify" /\ panicked = "none"
    /\ subscribers[nj] \in chanClosed
    /\ panicked' = "send on closed channel"
    /\ UNCHANGED <<subscribers, done, pastEventIDs, eventsToFlush, chanClosed,
                   received, observedClosed, pc, ni, nj, lastOut, nFetch,
                   closeCalled, insertCount, startLen, flushedLog,
                   flushedAtSub,
                   unread, released, notifiedEmpty>>

-----------------------------------------------------------------------------
(* Close, lines 135-139 *)

\* Mutant of closeLoop: the loop ends after the first subscriber.
closeLoopFirstOnly(subs, i, closed) ==
    IF i > Len(subs)
    THEN [closed |-> closed, panic |-> "none"]
    ELSE IF subs[i] \in closed
    THEN [closed |-> closed, panic |-> "close of closed channel"]
    ELSE [closed |-> closed \cup {subs[i]}, panic |-> "none"]

\* The channels closed by the loop: all of them, or those before the first
\* one that is closed already, where close panics.
RECURSIVE closeLoop(_, _, _)
closeLoop(subs, i, closed) ==
    IF i > Len(subs)
    THEN [closed |-> closed, panic |-> "none"]
    ELSE IF subs[i] \in closed
    THEN [closed |-> closed, panic |-> "close of closed channel"]
    ELSE closeLoop(subs, i+1, closed \cup {subs[i]})

Close ==
    /\ pc = "idle" /\ panicked = "none"
    /\ notifiedEmpty' = FALSE
    /\ closeCalled' = TRUE
    /\ lastOut' = NoOut
    /\ LET cl == closeLoop(subscribers, 1, chanClosed)
       IN  /\ chanClosed' = cl.closed
           /\ panicked' = cl.panic
    /\ UNCHANGED <<subscribers, done, pastEventIDs, eventsToFlush, received,
                   observedClosed, pc, ni, nj, nFetch, insertCount,
                   startLen, flushedLog, flushedAtSub,
                   unread, released>>

-----------------------------------------------------------------------------
(* The readers *)

\* A receive from a closed channel returns at once, with ok = false.
RecvClosed(c) ==
    /\ c \in chanClosed /\ c \notin unread
    /\ observedClosed' = observedClosed \cup {c}
    /\ UNCHANGED <<subscribers, done, pastEventIDs, eventsToFlush, chanClosed,
                   received, pc, ni, nj, panicked, lastOut, nFetch, closeCalled,
                   insertCount, startLen, flushedLog, flushedAtSub,
                   unread, released, notifiedEmpty>>

-----------------------------------------------------------------------------
\* NewECSDeploymentStreamer, lines 58-67.
Init ==
    /\ subscribers = <<>>
    /\ done = "open"
    /\ pastEventIDs = {}
    /\ eventsToFlush = <<>>
    /\ chanClosed = {}
    /\ received = [c \in Channels |-> <<>>]
    /\ observedClosed = {}
    /\ pc = "idle" /\ ni = 0 /\ nj = 0
    /\ panicked = "none"
    /\ lastOut = NoOut
    /\ nFetch = 0
    /\ closeCalled = FALSE
    /\ insertCount = [id \in EventIds |-> 0]
    /\ startLen = ZeroLen
    /\ flushedLog = <<>>
    /\ flushedAtSub = [c \in Channels |-> 0]
    /\ unread = {}
    /\ released = {}
    /\ notifiedEmpty = FALSE

Next ==
    \/ Subscribe
    \/ FetchError
    \/ \E out \in DriverResponses : Fetch(out)
    \/ Notify
    \/ NotifySend
    \/ NotifySendClosed
    \/ Close
    \/ \E c \in Channels : RecvClosed(c)

Spec == Init /\ [][Next]_vars

\* The driver only fetches: eventsToFlush then holds every value ever built.
NextFetch ==
    \/ FetchError
    \/ \E out \in Responses : Fetch(out)

SpecFetch == Init /\ [][NextFetch]_vars

-----------------------------------------------------------------------------
(* Readers that never receive *)

\* Subscribe, lines 70-74, by a caller whose reader never receives from the
\* channel it is handed.
SubscribeUnread ==
    /\ pc = "idle" /\ panicked = "none" /\ Len(subscribers) < MaxSubs
    /\ notifiedEmpty' = FALSE
    /\ LET c == Len(subscribers) + 1
       IN  /\ subscribers' = Append(subscribers, c)
           /\ flushedAtSub' = [flushedAtSub EXCEPT ![c] = Len(Flatten(flushedLog))]
           /\ unread' = unread \cup {c}
    /\ lastOut' = NoOut
    /\ UNCHANGED <<done, pastEventIDs, eventsToFlush, chanClosed, received,
                   observedClosed, pc, ni, nj, panicked, nFetch, closeCalled,
                   insertCount, startLen, flushedLog, released>>

\* The driver and its readers, some of which never receive; no Close.
NextReaders ==
    \/ Subscribe
    \/ SubscribeUnread
    \/ FetchError
    \/ \E out \in DriverResponses : Fetch(out)
    \/ Notify
    \/ NotifySend

SpecReaders == Init /\ [][NextReaders]_vars

\* A reader that receives at all receives whenever the send of line 128 to
\* its channel is pending.
FairReaders == SpecReaders /\ WF_vars(NotifySend)

-----------------------------------------------------------------------------
(* Done, lines 142-144, and the goroutines waiting on it *)

MaxWaiters == 2

Waiters == 1..MaxWaiters

\* Mutant of DoneReceive: the receive returns whatever the state of s.done.
DoneReceiveBeforeClose(w) ==
    /\ w \notin released
    /\ released' = released \cup {w}
    /\ UNCHANGED <<subscribers, done, pastEventIDs, eventsToFlush, chanClosed,
                   received, observedClosed, pc, ni, nj, panicked, lastOut,
                   nFetch, closeCalled, insertCount, startLen, flushedLog,
                   flushedAtSub, unread, notifiedEmpty>>

\* `<-s.Done()` in goroutine w: the receive returns once s.done is closed.
DoneReceive(w) ==
    /\ done = "closed" /\ w \notin released
    /\ released' = released \cup {w}
    /\ UNCHANGED <<subscribers, done, pastEventIDs, eventsToFlush, chanClosed,
                   received, observedClosed, pc, ni, nj, panicked, lastOut,
                   nFetch, closeCalled, insertCount, startLen, flushedLog,
                   flushedAtSub, unread, notifiedEmpty>>

\* The driver fetches and notifies while the waiters run.
NextDone ==
    \/ Subscribe
    \/ FetchError
    \/ \E out \in DriverResponses : Fetch(out)
    \/ Notify
    \/ NotifySend
    \/ \E w \in Waiters : DoneReceive(w)

\* The scheduler runs a goroutine whose receive can return.
SpecDone ==
    Init /\ [][NextDone]_vars /\ \A w \in Waiters : WF_vars(DoneReceive(w))

-----------------------------------------------------------------------------
(* Fetch over all four events *)

PrimaryLists ==
    { <<d>> : d \in { r \in RawDeployments : r.Status = ecsPrimaryDeploymentStatus } }

\* One PRIMARY deployment, in progress or completed, and any list of events.
EventResponses ==
    [Deployments : PrimaryLists, Events : SeqsUpTo(AllEvents, MaxEvents)]

NextEvents == \E out \in EventResponses : Fetch(out)

SpecEvents == Init /\ [][NextEvents]_vars

-----------------------------------------------------------------------------
(* Fetch over event lists that grow at the front *)

NewestFirst(evs) ==
    \A i, j \in 1..Len(evs) : i < j => ~Before(evs[i].CreatedAt, evs[j].CreatedAt)

DistinctIds(evs) ==
    \A i, j \in 1..Len(evs) : i # j => evs[i].Id # evs[j].Id

\* The event lists ECS keeps: newest first, no id twice.
ChainLists ==
    { evs \in SeqsUpTo(AllEvents, Cardinality(AllEvents)) :
        NewestFirst(evs) /\ DistinctIds(evs) }

ChainResponses == [Deployments : PrimaryLists, Events : ChainLists]

\* next is prev with zero or more events put in front.
GrownAtFront(next, prev) ==
    /\ Len(prev) <= Len(next)
    /\ SubSeq(next, Len(next) - Len(prev) + 1, Len(next)) = prev

\* The describe call returns the list of the call before, grown at the front.
ChainFetch(out) ==
    /\ GrownAtFront(out.Events, lastOut.Events)
    /\ Fetch(out)

NextChain == \E out \in ChainResponses : ChainFetch(out)

SpecChain == Init /\ [][NextChain]_vars

-----------------------------------------------------------------------------
(* Fetch over task definition ARNs *)

MaxArnLen == 8

\* The non-empty strings over chars of at most n characters.
Strings(chars, n) == UNION { [1..k -> chars] : k \in 1..n }

\* arn:...:task-definition/<family>:<revision>: a prefix that may hold ":",
\* then "/", a family, ":", and a revision; neither family nor revision
\* holds "/" or ":".
TaskDefARNs ==
    { arn \in { p \o <<"/">> \o f \o <<":">> \o r :
                  p \in Strings({"a", ":"}, MaxArnLen),
                  f \in Strings({"f"}, MaxArnLen),
                  r \in Strings({"3"}, MaxArnLen) } :
        Len(arn) <= MaxArnLen }

ArnResponses ==
    { [Deployments |-> <<RawDeployment("PRIMARY", arn, 2, 1, "IN_PROGRESS")>>,
       Events |-> <<>>] : arn \in TaskDefARNs }

NextParse == \E out \in ArnResponses : Fetch(out)

SpecParse == Init /\ [][NextParse]_vars

-----------------------------------------------------------------------------
(* Properties *)

Range(q) == { q[i] : i \in 1..Len(q) }

IsPrefix(p, q) == Len(p) <= Len(q) /\ SubSeq(q, 1, Len(p)) = p

\* p can be had from q by leaving elements out.
RECURSIVE IsSubseq(_, _)
IsSubseq(p, q) ==
    IF p = <<>> THEN TRUE
    ELSE IF q = <<>> THEN FALSE
    ELSE IF Head(p) = Head(q) THEN IsSubseq(Tail(p), Tail(q))
    ELSE IsSubseq(p, Tail(q))

\* The step is a Fetch call whose describe call succeeded.
FetchGotResponse == nFetch' = nFetch + 1 /\ lastOut'.result = "ok"

\* The response holds a deployment with status PRIMARY and desired = running.
PrimaryDoneIn(out) ==
    \E i \in 1..Len(out.Deployments) :
        /\ out.Deployments[i].Status = "PRIMARY"
        /\ out.Deployments[i].DesiredCount = out.Deployments[i].RunningCount

InWindow(e) == e.CreatedAt >= deploymentCreationTime

\* The first event that is out of window or whose id is known when it is
\* reached (ledger: the ids known before the call); Len(evs) + 1 if none is.
StopIndex(evs, ledger) ==
    LET stops(i) == \/ ~InWindow(evs[i])
                    \/ evs[i].Id \in ledger \cup { evs[j].Id : j \in 1..(i-1) }
    IN  IF \E i \in 1..Len(evs) : stops(i)
        THEN CHOOSE i \in 1..Len(evs) : stops(i) /\ \A j \in 1..(i-1) : ~stops(j)
        ELSE Len(evs) + 1

\* How often msg was reported in the failure messages of the values in q.
RECURSIVE Reports(_, _)
Reports(q, msg) ==
    IF q = <<>> THEN 0
    ELSE Occurrences(Head(q).LatestFailureEvents, msg) + Reports(Tail(q), msg)

\* C1 (as claimed): a Fetch whose response holds a PRIMARY deployment with
\* desired = running completes normally, also when s.done is closed already
\* (by an earlier Fetch, or earlier in the same response).
C1_SignalAgainIsNoOp ==
    (lastOut.result = "ok" /\ PrimaryDoneIn(lastOut)) => panicked = "none"

\* C2: s.done starts open, and after every step it is closed exactly if it
\* was closed before or the step is a Fetch whose describe call succeeded with
\* a PRIMARY deployment with desired = running: Done() is signaled iff some
\* Fetch received such a response, and it never reopens.
C2_DoneIffPrimaryCompleteSeen ==
    /\ done = "open"
    /\ [][ done' = "closed" <=>
             \/ done = "closed"
             \/ FetchGotResponse /\ PrimaryDoneIn(lastOut') ]_vars

\* C2 witness: done was closed by the first Fetch and stays closed after a
\* second Fetch whose response has no completed PRIMARY deployment.
C2_Witness ==
    /\ done = "closed" /\ panicked = "none" /\ nFetch = 2
    /\ lastOut.result = "ok" /\ ~PrimaryDoneIn(lastOut)
    /\ \E i \in 1..Len(lastOut.Deployments) :
          lastOut.Deployments[i].DesiredCount = lastOut.Deployments[i].RunningCount

\* C3: a Fetch whose describe call fails changes neither the ids known, the
\* buffer, s.done, the subscribers, nor what any reader has received.
C3_FetchErrorChangesNothing ==
    [][ (nFetch' = nFetch + 1 /\ lastOut'.result = "error") =>
          UNCHANGED <<pastEventIDs, eventsToFlush, done, subscribers, chanClosed,
                      received, observedClosed, panicked>> ]_vars

\* C3 witness: the describe call failed with ids known, a value buffered,
\* s.done closed and a subscriber registered.
C3_Witness ==
    /\ lastOut.result = "error"
    /\ pastEventIDs # {} /\ eventsToFlush # <<>> /\ done = "closed"
    /\ subscribers # <<>>

\* C4: in a Fetch that returns, with k the first event (in the order returned)
\* that is before the creation time or whose id is known, no event from k on
\* adds its id to the ids known or its message to the failure messages: the
\* ids added and the messages reported all come from the events before k.
C4_HaltAtFirstStop ==
    [][ (FetchGotResponse /\ panicked' = "none") =>
          LET evs == lastOut'.Events
              k == StopIndex(evs, pastEventIDs)
              snap == eventsToFlush'[Len(eventsToFlush')]
          IN  /\ pastEventIDs' \subseteq
                     pastEventIDs \cup { evs[j].Id : j \in 1..(k-1) }
              /\ IsSubseq(snap.LatestFailureEvents,
                          [j \in 1..(k-1) |-> evs[j].Message]) ]_vars

\* C4 witness: the Fetch stopped at an event in window whose id was known, and
\* a later event of the response, a failure in window, is in the ids neither
\* before nor after the call, and nothing was reported.
C4_Witness ==
    /\ lastOut.result = "ok" /\ panicked = "none"
    /\ eventsToFlush[Len(eventsToFlush)].LatestFailureEvents = <<>>
    /\ \E k, j \in 1..Len(lastOut.Events) :
          /\ k < j
          /\ InWindow(lastOut.Events[k]) /\ lastOut.Events[k].Id \in pastEventIDs
          /\ InWindow(lastOut.Events[j]) /\ lastOut.Events[j].Id \notin pastEventIDs
          /\ isFailureServiceEvent(lastOut.Events[j].Message)

\* C5: no step of the driver or of a reader removes an id from the ids known,
\* and line 115 is executed at most once for each id.
C5_LedgerOnlyGrows ==
    [][ /\ pastEventIDs \subseteq pastEventIDs'
        /\ \A id \in EventIds : insertCount'[id] <= 1 ]_vars

\* C5 witness: the first Fetch recorded e1 and its value was flushed; a later
\* Fetch got e1 again, after a Subscribe and a Close.
C5_Witness ==
    /\ flushedLog # <<>> /\ flushedLog[1][1].LatestFailureEvents = <<MsgFailed>>
    /\ lastOut.result = "ok" /\ lastOut.Events # <<>>
    /\ lastOut.Events[1].Id = "e1"
    /\ "e1" \in pastEventIDs /\ insertCount["e1"] = 1
    /\ subscribers # <<>> /\ closeCalled

\* C6: over all the values built so far (under SpecFetch none leaves the
\* buffer), the message of each event is reported at most once.
C6_FailureReportedOnce ==
    \A e \in RawEvents : Reports(eventsToFlush, e.Message) <= 1

\* C6 witness: the first Fetch reported the failure e1; the second got e1
\* again and reported nothing.
C6_Witness ==
    /\ Len(eventsToFlush) = 2 /\ panicked = "none"
    /\ eventsToFlush[1].LatestFailureEvents = <<MsgFailed>>
    /\ eventsToFlush[2].LatestFailureEvents = <<>>
    /\ lastOut.result = "ok"
    /\ \E i \in 1..Len(lastOut.Events) : lastOut.Events[i].Id = "e1"

\* C7: no step takes away or changes what a reader has received, and when a
\* Notify that had to send returns, every subscriber's reader has received,
\* after what it had when the call began, exactly the buffer of the call, in
\* the buffer's order.
C7_NotifyDeliversBufferInOrder ==
    [][ /\ \A c \in Channels : IsPrefix(received[c], received'[c])
        /\ (pc = "notify" /\ pc' = "idle") =>
              \A c \in Range(subscribers) :
                  received'[c] = SubSeq(received'[c], 1, startLen[c]) \o eventsToFlush
      ]_vars

\* C7 witness: one Notify has flushed two different values to two subscribers.
C7_Witness ==
    /\ pc = "idle" /\ panicked = "none" /\ Len(subscribers) = 2
    /\ Len(flushedLog) = 1 /\ Len(flushedLog[1]) = 2
    /\ flushedLog[1][1] # flushedLog[1][2]
    /\ received[1] = flushedLog[1] /\ received[2] = flushedLog[1]

\* C8: a step of Notify that returns leaves the buffer empty, one that blocks
\* leaves it as it is; every other step leaves the buffer as it is or, being a
\* Fetch, appends one value at its tail.
C8_BufferEmptiedOnlyByNotify ==
    [][ IF Notify \/ NotifySend
        THEN /\ pc' = "idle" => eventsToFlush' = <<>>
             /\ pc' = "notify" => eventsToFlush' = eventsToFlush
        ELSE \/ eventsToFlush' = eventsToFlush
             \/ /\ nFetch' = nFetch + 1
                /\ Len(eventsToFlush') = Len(eventsToFlush) + 1
                /\ IsPrefix(eventsToFlush, eventsToFlush') ]_vars

\* C8 witness: a Notify has returned after flushing a buffer of two values
\* to a subscriber, and the buffer is empty.
C8_Witness ==
    /\ pc = "idle" /\ panicked = "none" /\ subscribers # <<>>
    /\ eventsToFlush = <<>>
    /\ flushedLog # <<>> /\ Len(flushedLog[1]) = 2
    /\ received[1] = flushedLog[1]

\* C9: whenever the driver is between calls, the reader of each subscriber
\* has received exactly the values flushed since its Subscribe, in order, and
\* none of the values flushed before: with the values flushed before its
\* Subscribe they are no more than the values Fetch has built.
C9_SubscriberGetsLaterFlushesOnly ==
    pc = "idle" =>
        \A c \in Range(subscribers) :
            LET flat == Flatten(flushedLog)
            IN  /\ received[c] = SubSeq(flat, flushedAtSub[c] + 1, Len(flat))
                /\ flushedAtSub[c] + Len(received[c]) <= nFetch

\* C9 witness: the second subscriber registered after one value was flushed;
\* it has received the second value only, the first subscriber both.
C9_Witness ==
    /\ pc = "idle" /\ panicked = "none" /\ Len(subscribers) = 2
    /\ flushedAtSub[1] = 0 /\ flushedAtSub[2] = 1
    /\ Len(flushedLog) = 2
    /\ received[1] = Flatten(flushedLog)
    /\ received[2] = flushedLog[2]
    /\ flushedLog[1] # flushedLog[2]

\* C10: the first Close call does not panic and closes every subscriber;
\* a closed channel stays closed, its reader receives no value any more, and
\* only closed channels are observed as closed.
C10_CloseClosesEverySubscriber ==
    [][ /\ (~closeCalled /\ closeCalled') =>
              /\ panicked' = "none"
              /\ Range(subscribers) \subseteq chanClosed'
        /\ \A c \in chanClosed : c \in chanClosed' /\ received'[c] = received[c]
        /\ observedClosed' \subseteq chanClosed' ]_vars

\* C10 witness: after Fetch, Notify and one Close, both subscribers are
\* closed and both readers, which had received a value, have read "closed".
C10_Witness ==
    /\ closeCalled /\ panicked = "none" /\ Len(subscribers) = 2
    /\ chanClosed = {1, 2} /\ observedClosed = {1, 2}
    /\ received[1] # <<>> /\ received[2] # <<>>

\* The values the reader of c has received since the Notify under way began.
Got(c) == Len(received[c]) - startLen[c]

\* C11: a Notify call that finds the buffer empty returns at once, without a
\* send, also when no reader of a registered channel ever receives; no reader
\* receives anything, and the ids known, s.done, the subscribers and their
\* channels are as before.
C11_NotifyOnEmptyBufferIsNoOp ==
    [][ (~notifiedEmpty /\ notifiedEmpty') =>
          /\ eventsToFlush = <<>> /\ pc = "idle"
          /\ pc' = "idle" /\ panicked' = "none"
          /\ UNCHANGED <<received, pastEventIDs, done, subscribers, chanClosed,
                         observedClosed, eventsToFlush>> ]_vars

\* C11 witness: Notify has returned on an empty buffer although the reader of
\* the only subscriber never receives; ids are known and s.done is closed.
C11_Witness ==
    /\ notifiedEmpty /\ pc = "idle" /\ panicked = "none"
    /\ subscribers # <<>> /\ Range(subscribers) \subseteq unread
    /\ pastEventIDs # {} /\ done = "closed"
    /\ \A c \in Channels : received[c] = <<>>

\* C12: while Notify is blocked in a send, the reader of a subscriber has
\* received no more values of the call than the reader of any subscriber
\* registered before it: a value reaches a subscriber only after every earlier
\* subscriber has accepted it. So behind a subscriber whose reader never
\* receives, no later subscriber has received anything of the call.
C12_DeliveryInRegistrationOrder ==
    pc = "notify" =>
        \A k, l \in 1..Len(subscribers) :
            k < l =>
                /\ Got(subscribers[l]) <= Got(subscribers[k])
                /\ subscribers[k] \in unread => Got(subscribers[l]) = 0

\* C12 witness: Notify is blocked in the send to the first subscriber, whose
\* reader never receives; the second subscriber's reader does receive but has
\* been sent nothing.
C12_Witness ==
    /\ pc = "notify" /\ panicked = "none" /\ Len(subscribers) = 2
    /\ subscribers[1] \in unread /\ subscribers[2] \notin unread
    /\ ni = 1 /\ nj = 1 /\ eventsToFlush # <<>>
    /\ received[subscribers[2]] = <<>>

\* C13: with readers that receive whenever a send to them is pending, a Notify
\* call blocked in a send returns if every subscriber has such a reader; with a
\* subscriber whose reader never receives, a Notify call that had to send
\* never returns.
C13_NotifyReturnsIfAndOnlyIfAllAreRead ==
    /\ (pc = "notify" /\ Range(subscribers) \cap unread = {}) ~> (pc = "idle")
    /\ [][ (pc = "notify" /\ Range(subscribers) \cap unread # {}) =>
              pc' = "notify" ]_vars

\* C13 witness: of one value buffered, the first subscriber's reader has
\* received it and Notify is blocked for good in the send to the second
\* subscriber, whose reader never receives.
C13_Witness ==
    /\ pc = "notify" /\ panicked = "none" /\ Len(subscribers) = 2
    /\ Len(eventsToFlush) = 1 /\ ni = 1 /\ nj = 2
    /\ subscribers[1] \notin unread /\ subscribers[2] \in unread
    /\ received[subscribers[1]] = eventsToFlush

\* C14 (as claimed): every Fetch whose describe call succeeded, a Fetch made
\* after s.done is closed included, appends exactly one value at the tail of
\* the buffer, and that value holds one deployment for each deployment of the
\* response, in the same order, with its status and its desired, running,
\* failed and pending counts.
C14_EveryFetchAppendsOneSnapshot ==
    [][ FetchGotResponse =>
          /\ Len(eventsToFlush') = Len(eventsToFlush) + 1
          /\ IsPrefix(eventsToFlush, eventsToFlush')
          /\ LET ds == lastOut'.Deployments
                 snap == eventsToFlush'[Len(eventsToFlush')]
             IN  /\ Len(snap.Deployments) = Len(ds)
                 /\ \A i \in 1..Len(ds) :
                       /\ snap.Deployments[i].Status = ds[i].Status
                       /\ snap.Deployments[i].DesiredCount = ds[i].DesiredCount
                       /\ snap.Deployments[i].RunningCount = ds[i].RunningCount
                       /\ snap.Deployments[i].FailedCount = ds[i].FailedTasks
                       /\ snap.Deployments[i].PendingCount = ds[i].PendingCount
      ]_vars

\* C15: a Fetch that returns leaves as ids known exactly the ids known before
\* and the ids of the events before the first event that is before the
\* creation time or whose id is known when it is reached, failure or not; an
\* event created at the creation time does not stop the loop.
C15_LedgerGainsEveryEventBeforeTheStop ==
    [][ (FetchGotResponse /\ panicked' = "none") =>
          LET evs == lastOut'.Events
              k == StopIndex(evs, pastEventIDs)
          IN  pastEventIDs' = pastEventIDs \cup { evs[j].Id : j \in 1..(k-1) }
      ]_vars

\* C15 witness: the first Fetch got e2, created at the creation time and no
\* failure, and then e1; both ids are known and only e1 was reported.
C15_Witness ==
    /\ nFetch = 1 /\ panicked = "none" /\ lastOut.result = "ok"
    /\ Len(lastOut.Events) = 2
    /\ lastOut.Events[1].Id = "e2" /\ lastOut.Events[2].Id = "e1"
    /\ lastOut.Events[1].CreatedAt = deploymentCreationTime
    /\ pastEventIDs = {"e1", "e2"}
    /\ eventsToFlush[1].LatestFailureEvents = <<MsgFailed>>

\* The failure keywords, and the match: some keyword occurs in msg, letter for
\* letter, at some position.
FailureKeywords ==
    { <<"f","a","i","l">>, <<"u","n","h","e","a","l","t","h","y">>,
      <<"e","r","r","o","r">>, <<"t","h","r","o","t","t","l","e">>,
      <<"u","n","a","b","l","e">>, <<"m","i","s","s","i","n","g">> }

HasFailureKeyword(msg) ==
    \E kw \in FailureKeywords :
        \E at \in 1..Len(msg) :
            /\ at + Len(kw) - 1 <= Len(msg)
            /\ \A j \in 1..Len(kw) : msg[at + j - 1] = kw[j]

\* The messages with a failure keyword among the first n events, in order.
RECURSIVE KeywordMessages(_, _)
KeywordMessages(evs, n) ==
    IF n = 0 THEN <<>>
    ELSE IF HasFailureKeyword(evs[n].Message)
         THEN Append(KeywordMessages(evs, n-1), evs[n].Message)
         ELSE KeywordMessages(evs, n-1)

\* C16: the failure messages of the value a returning Fetch appends are
\* exactly the messages, in the order of the response, of the events before
\* the stop that hold a failure keyword in lower case as it is spelled; the
\* list is empty when there is none, and no other message is in it. The
\* keywords the code matches are the six fixed ones.
C16_FailureMessagesAreTheKeywordMatches ==
    [][ (FetchGotResponse /\ panicked' = "none") =>
          LET evs == lastOut'.Events
              k == StopIndex(evs, pastEventIDs)
              snap == eventsToFlush'[Len(eventsToFlush')]
          IN  /\ snap.LatestFailureEvents = KeywordMessages(evs, k-1)
              /\ Range(ecsEventFailureKeywords) = FailureKeywords ]_vars

\* C16 witness: the first Fetch reported e4 then e1, in the order returned;
\* the second got e2, whose message spells a keyword in capitals, recorded
\* its id and reported nothing.
C16_Witness ==
    /\ nFetch = 2 /\ panicked = "none" /\ Len(eventsToFlush) = 2
    /\ eventsToFlush[1].LatestFailureEvents = <<MsgError, MsgFailed>>
    /\ lastOut.result = "ok" /\ Len(lastOut.Events) >= 1
    /\ lastOut.Events[1].Message = MsgUpper
    /\ "e2" \in pastEventIDs
    /\ eventsToFlush[2].LatestFailureEvents = <<>>

\* The text of arn after the last ":" that follows the last "/".
RevisionOf(arn) ==
    LET slash == CHOOSE i \in 1..Len(arn) :
                     arn[i] = "/" /\ \A j \in (i+1)..Len(arn) : arn[j] # "/"
        colon == CHOOSE i \in (slash+1)..Len(arn) :
                     arn[i] = ":" /\ \A j \in (i+1)..Len(arn) : arn[j] # ":"
    IN  SubSeq(arn, colon + 1, Len(arn))

\* C17: after a Fetch whose response held task definition ARNs of the form
\* arn:...:task-definition/<family>:<revision>, the call has returned and the
\* revision stored for each deployment is the text of its ARN after the last
\* ":" following the last "/".
C17_RevisionIsTheTextAfterTheLastColon ==
    lastOut.result = "ok" =>
        /\ panicked = "none"
        /\ LET ds == lastOut.Deployments
               snap == eventsToFlush[Len(eventsToFlush)]
           IN  \A i \in 1..Len(ds) :
                  snap.Deployments[i].TaskDefRevision = RevisionOf(ds[i].TaskDefinition)

\* C17 witness: an ARN with ":" before the "/" and revision 33 was parsed.
C17_Witness ==
    /\ lastOut.result = "ok" /\ panicked = "none"
    /\ lastOut.Deployments[1].TaskDefinition = <<"a",":","a","/","f",":","3","3">>
    /\ eventsToFlush[Len(eventsToFlush)].Deployments[1].TaskDefRevision = <<"3","3">>

\* C18: no goroutine waiting on Done() is released while s.done is open, and
\* s.done changes only once, from open to closed, in a Fetch whose response
\* holds a PRIMARY deployment with desired = running; once it is closed, every
\* waiter is released in the end, whatever the driver does meanwhile.
C18_WaitersReleasedOnlyAndSurelyAfterCompletion ==
    /\ [](released # {} => done = "closed")
    /\ [][ done' # done =>
              /\ done = "open" /\ done' = "closed"
              /\ FetchGotResponse /\ PrimaryDoneIn(lastOut') ]_vars
    /\ (done = "closed") ~> (released = Waiters)

\* C18 witness: both waiters were released while the driver is blocked in a
\* send of Notify, after a Fetch that closed s.done.
C18_Witness ==
    /\ released = Waiters /\ done = "closed"
    /\ pc = "notify" /\ panicked = "none" /\ nFetch = 1

\* C19: while Notify is blocked in a send, the numbers of values of the call
\* that any two subscribers' readers have received differ by at most one: no
\* reader gets the next buffered value before every reader has the current
\* one. So with a subscriber whose reader never receives, no reader, of an
\* earlier subscriber either, receives more than the first value.
C19_SnapshotMajorDelivery ==
    pc = "notify" =>
        \A c, d \in Range(subscribers) :
            /\ Got(c) - Got(d) <= 1
            /\ d \in unread => Got(c) <= 1

\* C19 witness: two values are buffered; the first subscriber's reader has
\* the first, and Notify is blocked in the send of it to the second
\* subscriber, whose reader never receives: the first gets no second value.
C19_Witness ==
    /\ pc = "notify" /\ panicked = "none" /\ Len(subscribers) = 2
    /\ Len(eventsToFlush) = 2 /\ ni = 1 /\ nj = 2
    /\ subscribers[2] \in unread /\ subscribers[1] \notin unread
    /\ Got(subscribers[1]) = 1 /\ Got(subscribers[2]) = 0

\* C20: when every response lists its events newest first without repeating
\* an id, and is the response before with events put in front (SpecChain),
\* then after Fetch calls that all returned, every event of a response that is
\* not before the creation time has its id among the ids known, and if its
\* message holds a failure keyword the message was reported in exactly one of
\* the values built. The last response holds every event of every response.
C20_NoInWindowFailureIsLost ==
    (lastOut.result = "ok" /\ panicked = "none") =>
        \A i \in 1..Len(lastOut.Events) :
            LET e == lastOut.Events[i]
            IN  InWindow(e) =>
                   /\ e.Id \in pastEventIDs
                   /\ HasFailureKeyword(e.Message) =>
                          Reports(eventsToFlush, e.Message) = 1

\* C20 witness: the first response listed e1 and e2, the second put e4 in
\* front; the loop stopped at e1, all three ids are known, and e1 and e4 were
\* reported once each, in two values.
C20_Witness ==
    /\ nFetch = 2 /\ panicked = "none" /\ Len(eventsToFlush) = 2
    /\ Len(lastOut.Events) = 3
    /\ lastOut.Events[1].Id = "e4" /\ lastOut.Events[2].Id = "e1"
    /\ lastOut.Events[3].Id = "e2"
    /\ pastEventIDs = {"e1", "e2", "e4"}
    /\ eventsToFlush[1].LatestFailureEvents = <<MsgFailed>>
    /\ eventsToFlush[2].LatestFailureEvents = <<MsgError>>

====
